---- MODULE Spec2Model ----
(***************************************************************************)
(* Model of the openOii frontend core: the toast store and its severity    *)
(* facade (stores/toast.store, utils/toast) and the canvas event bus       *)
(* (components/canvas/canvasEvents.ts).                                    *)
(***************************************************************************)
EXTENDS Integers, Sequences, FiniteSets, TLC

VARIABLES
    toasts,     \* useToastStore state: the queue, oldest first
    now,        \* the last value Date.now() returned
    calls,      \* number of facade calls made so far (bounded exploration)
    lastOp      \* history: the last store call, its arguments, the queue
                \* length it found and the call before it

VARIABLES
    listeners,  \* CanvasEventBus.listeners: Map from event to its Set of callbacks
    stack,      \* the emit calls in progress, outermost first
    cancels,    \* the unsubscribe closures on() has returned so far
    lastBus,    \* history: the last step of the bus and its arguments
    lastEmit,   \* history: the emit call the last step ended, if any
    ref,        \* history: per event, the plain set replaying the adds and removes
    dropped,    \* history: per event, what off(event) removed and on has not renewed
    cleared     \* history: the callbacks clear() removed, until on is called again

VARIABLES
    item,           \* ConfigInput props: the config item, NoItem before the mount
    value,          \* ConfigInput props: the value the parent passes
    isRevealed,     \* useState(false)
    revealedValue,  \* useState<string | null>(null)
    isRevealing,    \* useState(false)
    inFlight,       \* the revealValue requests sent and not yet settled
    requests,       \* number of revealValue requests sent so far
    lastInput       \* history: the last step of the component and what it reported

VARIABLES
    configs,        \* the argument of the last groupConfigs call
    sections,       \* what that call returned, NotGrouped before the first call
    resubscribed    \* history: the (event, callback) pairs on was called for
                    \* when a cancel function for the pair already existed

toastVars == <<toasts, now, calls, lastOp>>
busVars == <<listeners, stack, cancels, lastBus, lastEmit, ref, dropped, cleared>>
inputVars == <<item, value, isRevealed, revealedValue, isRevealing, inFlight,
               requests, lastInput>>
vars == <<toasts, now, calls, lastOp,
          listeners, stack, cancels, lastBus, lastEmit, ref, dropped, cleared,
          item, value, isRevealed, revealedValue, isRevealing, inFlight,
          requests, lastInput, configs, sections, resubscribed>>
groupVars == <<configs, sections>>

(***************************************************************************)
(* Bounds of the model.                                                    *)
(***************************************************************************)
MaxNow == 1             \* Date.now() readings range over 0..MaxNow
MaxCalls == 2           \* facade calls explored by FacadeSpec
RandVals == {0, 1}      \* values Math.random() returns
Titles == {"T"}
Messages == {"M"}
MaxDepth == 2           \* emit calls in progress at once, explored by NestSpec
MaxRequests == 2        \* revealValue requests explored by InputSpec
MaxConfigs == 3         \* length of the lists handed to groupConfigs

(***************************************************************************)
(* JavaScript values. A number n is Num(n); the undefined value is         *)
(* Undefined. An object is a function from its own keys to values.         *)
(***************************************************************************)
Undefined == <<"undefined">>
Null == <<"null">>
Num(n) == <<"number", n>>
Str(s) == <<"string", s>>

\* { ...base, ...over }: the keys of both, over's values winning.
Spread(base, over) ==
    [k \in (DOMAIN base) \cup (DOMAIN over) |->
        IF k \in DOMAIN over THEN over[k] ELSE base[k]]

\* obj.key: undefined when obj has no such key.
Get(obj, key) == IF key \in DOMAIN obj THEN obj[key] ELSE Undefined

\* v ?? d
Nullish(v, d) == IF v = Undefined THEN d ELSE v

(***************************************************************************)
(* utils/toast: the four severity constructors.                            *)
(***************************************************************************)
success(options) ==
    Spread([type |-> "success",
            duration |-> Nullish(Get(options, "duration"), Num(3000))],
           options)

\* Mutant: the spread written first and the default taken with ||, so that
\* a duration of 0 gives way to the default.
errorDefaultLast(options) ==
    Spread(options,
           [type |-> "error",
            duration |-> IF Get(options, "duration") \in {Undefined, Num(0)}
                         THEN Num(5000)
                         ELSE Get(options, "duration")])

error(options) ==
    Spread([type |-> "error",
            duration |-> Nullish(Get(options, "duration"), Num(5000))],
           options)

\* Mutant: warning copied from info with its default left as it was.
warningCopied(options) ==
    Spread([type |-> "warning",
            duration |-> Nullish(Get(options, "duration"), Num(3000))],
           options)

warning(options) ==
    Spread([type |-> "warning",
            duration |-> Nullish(Get(options, "duration"), Num(4000))],
           options)

info(options) ==
    Spread([type |-> "info",
            duration |-> Nullish(Get(options, "duration"), Num(3000))],
           options)

(***************************************************************************)
(* stores/toast.store                                                      *)
(***************************************************************************)
MAX_TOASTS == 5

\* `toast-${Date.now()}-${Math.random()}`: the two numbers, kept apart by
\* the separator.
ToastId(ms, rnd) == <<"toast", ms, rnd>>

\* Mutant: no eviction.
addToastNoEvict(state, toast, id) == Append(state, Spread(toast, [id |-> id]))

\* Mutant: pop() for shift(), the newest entry is dropped.
addToastPop(state, toast, id) ==
    LET appended == Append(state, Spread(toast, [id |-> id]))
    IN  IF Len(appended) > MAX_TOASTS
        THEN SubSeq(appended, 1, MAX_TOASTS)
        ELSE appended

\* Mutant: >= for >, the head is dropped when the queue reaches 5.
addToastEvictEarly(state, toast, id) ==
    LET appended == Append(state, Spread(toast, [id |-> id]))
    IN  IF Len(appended) >= MAX_TOASTS THEN Tail(appended) ELSE appended

\* The next state.toasts of addToast(toast), id being the generated id.
addToast(state, toast, id) ==
    LET newToast == Spread(toast, [id |-> id])
        appended == Append(state, newToast)
    IN  IF Len(appended) > MAX_TOASTS THEN Tail(appended) ELSE appended

\* Mutant: splice(findIndex(...), 1), which removes the last entry when no
\* entry has the id.
removeToastSplice(state, id) ==
    IF \E i \in 1..Len(state) : state[i].id = id
    THEN LET at == CHOOSE i \in 1..Len(state) :
                      /\ state[i].id = id
                      /\ \A j \in 1..(i - 1) : state[j].id # id
         IN  SubSeq(state, 1, at - 1) \o SubSeq(state, at + 1, Len(state))
    ELSE SubSeq(state, 1, Len(state) - 1)

\* The next state.toasts of removeToast(id).
removeToast(state, id) == SelectSeq(state, LAMBDA t : t.id # id)

\* Mutant: the toasts that never expire survive a clear.
clearToastsKeepPersistent == SelectSeq(toasts, LAMBDA t : t.duration = Num(0))

\* The next state.toasts of clearToasts().
clearToasts == <<>>

(***************************************************************************)
(* Inputs.                                                                 *)
(***************************************************************************)
Severities == {"success", "error", "warning", "info"}

\* ToastOptions with title and message only.
PlainOptions == [title : Titles, message : Messages]

\* ToastOptions with a duration key: a number (0 among them) or undefined.
OptionDurations == {Num(0), Num(7000), Undefined}
DurationOptions == [title : Titles, message : Messages, duration : OptionDurations]

AllOptions == PlainOptions \cup DurationOptions

\* Omit<Toast, "id"> values handed to addToast directly.
ToastInputs ==
    [type : {"error"}, title : Titles, message : Messages, duration : {Num(0)}]

\* Every id the generator can produce within the bounds.
Ids == {ToastId(ms, rnd) : ms \in 0..MaxNow, rnd \in RandVals}

NoId == <<>>
NoInput == <<>>

(***************************************************************************)
(* Store actions. Date.now() is read as the previous reading or a later    *)
(* one, up to MaxNow; a wall clock set back is not explored.               *)
(***************************************************************************)
ClockReads == {ms \in now..(now + 1) : ms <= MaxNow}

Store(op, input, toast) ==
    \E ms \in ClockReads, rnd \in RandVals :
        /\ toasts' = addToast(toasts, toast, ToastId(ms, rnd))
        /\ now' = ms
        /\ lastOp' = [op |-> op, input |-> input, id |-> ToastId(ms, rnd),
                      preLen |-> Len(toasts), before |-> lastOp.op]

AddToast(toast) == Store("addToast", toast, toast)

Success(options) == Store("success", options, success(options))

Error(options) == Store("error", options, error(options))

Warning(options) == Store("warning", options, warning(options))

Info(options) == Store("info", options, info(options))

RemoveToast(id) ==
    /\ toasts' = removeToast(toasts, id)
    /\ lastOp' = [op |-> "removeToast", input |-> NoInput, id |-> id,
                  preLen |-> Len(toasts), before |-> lastOp.op]
    /\ UNCHANGED now

ClearToasts ==
    /\ toasts' = clearToasts
    /\ lastOp' = [op |-> "clearToasts", input |-> NoInput, id |-> NoId,
                  preLen |-> Len(toasts), before |-> lastOp.op]
    /\ UNCHANGED now

(***************************************************************************)
(* components/canvas/canvasEvents.ts                                       *)
(*                                                                         *)
(* A Set is the sequence of its members in insertion order, a Map a        *)
(* function from its keys. Set.prototype.forEach walks the live Set: a     *)
(* member deleted before its turn is not visited, a member added during    *)
(* the walk is visited at the end. A frame keeps the number idx of members *)
(* already passed; deleting a member at or before that position moves idx  *)
(* back by one, which is what skipping the emptied slot amounts to.        *)
(***************************************************************************)
Kinds == {"delete-character", "delete-shot"}    \* two of the CanvasEvents keys
Callbacks == {"L1", "L2"}                       \* callback references
Payloads == {7, 8}

NoCallback == "undefined"
NoEvent == "none"

EmptyMap == <<>>

MapSet(m, k, v) == [x \in (DOMAIN m) \cup {k} |-> IF x = k THEN v ELSE m[x]]

MapDelete(m, k) == [x \in (DOMAIN m) \ {k} |-> m[x]]

IndexOf(s, x) ==
    IF \E i \in 1..Len(s) : s[i] = x
    THEN CHOOSE i \in 1..Len(s) : s[i] = x
    ELSE 0

\* Mutant: an array push, which does not look for the member.
SetAddPush(s, x) == Append(s, x)

\* Mutant: a member already there is moved to the end.
SetAddLast(s, x) == Append(SelectSeq(s, LAMBDA y : y # x), x)

SetAdd(s, x) == IF IndexOf(s, x) > 0 THEN s ELSE Append(s, x)

SetDelete(s, x) == SelectSeq(s, LAMBDA y : y # x)

\* this.listeners.get(event), as a sequence: empty when the Map has no entry.
Registered(ls, event) == IF event \in DOMAIN ls THEN ls[event] ELSE <<>>

\* on(event, callback): the next listeners.
on(ls, event, callback) ==
    LET withSet == IF event \in DOMAIN ls THEN ls ELSE MapSet(ls, event, <<>>)
    IN  MapSet(withSet, event, SetAdd(withSet[event], callback))

\* Mutant: splice(indexOf(callback), 1) on an array of callbacks, which
\* removes the last one when the callback is not there.
unsubscribeSplice(ls, event, callback) ==
    IF event \in DOMAIN ls
    THEN IF IndexOf(ls[event], callback) > 0
         THEN MapSet(ls, event, SetDelete(ls[event], callback))
         ELSE MapSet(ls, event, SubSeq(ls[event], 1, Len(ls[event]) - 1))
    ELSE ls

\* Mutant: the callback deleted from the Set of every event.
unsubscribeEverywhere(ls, event, callback) ==
    [k \in DOMAIN ls |-> SetDelete(ls[k], callback)]

\* Mutant: the closure deletes event, which no Set holds, for callback.
unsubscribeWrongArg(ls, event, callback) == ls

\* The closure on() returns: this.listeners.get(event)?.delete(callback).
unsubscribe(ls, event, callback) ==
    IF event \in DOMAIN ls
    THEN MapSet(ls, event, SetDelete(ls[event], callback))
    ELSE ls

\* Mutant: the else branch forgotten, off(event) deletes the callback
\* undefined from the Set.
offNoElse(ls, event, callback) ==
    IF event \in DOMAIN ls
    THEN MapSet(ls, event, SetDelete(ls[event], callback))
    ELSE ls

\* Mutant: the test of callback forgotten, the event's Set always deleted.
offDropsKind(ls, event, callback) == MapDelete(ls, event)

\* off(event, callback?): the next listeners.
off(ls, event, callback) ==
    IF callback # NoCallback
    THEN IF event \in DOMAIN ls
         THEN MapSet(ls, event, SetDelete(ls[event], callback))
         ELSE ls
    ELSE MapDelete(ls, event)

\* Mutant: only one entry of the Map deleted.
clearOneKind(ls) ==
    IF ls = EmptyMap THEN ls ELSE MapDelete(ls, CHOOSE k \in DOMAIN ls : TRUE)

\* clear(): the next listeners.
clear(ls) == EmptyMap

(***************************************************************************)
(* emit. A frame is one emit call inside callbacks.forEach: the Set it     *)
(* walks is the Map's (live) or, once the Map entry is gone, the Set       *)
(* object it still holds (detached), which nothing can change any more.    *)
(* snap, invoked, quiet and drop are history: quiet says that the          *)
(* callbacks registered for the event are still those of the call, snap    *)
(* and invoked are kept while that is so.                                  *)
(***************************************************************************)
NewFrame(ls, event, data, drop) ==
    [event |-> event, data |-> data, live |-> TRUE, detached |-> <<>>,
     idx |-> 0, running |-> NoCallback,
     snap |-> Registered(ls, event), invoked |-> <<>>, quiet |-> TRUE,
     drop |-> drop]

Summary(f, outcome, depth) ==
    [event |-> f.event, data |-> f.data, snap |-> f.snap,
     invoked |-> f.invoked, outcome |-> outcome, quiet |-> f.quiet,
     drop |-> f.drop, depth |-> depth]

NoEmit ==
    [event |-> NoEvent, data |-> 0, snap |-> <<>>, invoked |-> <<>>,
     outcome |-> "none", quiet |-> TRUE, drop |-> {}, depth |-> 0]

FrameSet(f, ls) == IF f.live THEN ls[f.event] ELSE f.detached

\* Mutant: the Set walked from its end.
forEachReversed(stk, ls) ==
    LET n == Len(stk)
        f == stk[n]
        set == FrameSet(f, ls)
    IN  IF f.idx < Len(set)
        THEN [stack |-> [stk EXCEPT ![n] =
                            [f EXCEPT !.idx = f.idx + 1,
                                      !.running = set[Len(set) - f.idx],
                                      !.invoked =
                                          IF f.quiet
                                          THEN Append(f.invoked,
                                                      <<set[Len(set) - f.idx], f.data>>)
                                          ELSE <<>>]],
              ended |-> FALSE, summary |-> NoEmit]
        ELSE [stack |-> SubSeq(stk, 1, n - 1),
              ended |-> TRUE, summary |-> Summary(f, "returned", n)]

\* callbacks.forEach, from the top frame's position: call the next member
\* with the frame's data, or return from emit when none is left.
forEach(stk, ls) ==
    LET n == Len(stk)
        f == stk[n]
        set == FrameSet(f, ls)
    IN  IF f.idx < Len(set)
        THEN [stack |-> [stk EXCEPT ![n] =
                            [f EXCEPT !.idx = f.idx + 1,
                                      !.running = set[f.idx + 1],
                                      !.invoked =
                                          IF f.quiet
                                          THEN Append(f.invoked,
                                                      <<set[f.idx + 1], f.data>>)
                                          ELSE <<>>]],
              ended |-> FALSE, summary |-> NoEmit]
        ELSE [stack |-> SubSeq(stk, 1, n - 1),
              ended |-> TRUE, summary |-> Summary(f, "returned", n)]

\* Mutant: a re-entrant emit is queued, its dispatch put off until the emit
\* calls in progress are done.
emitDeferred(stk, ls, event, data, drop) ==
    IF event \in DOMAIN ls
    THEN IF stk = <<>>
         THEN forEach(<<NewFrame(ls, event, data, drop)>>, ls)
         ELSE [stack |-> <<NewFrame(ls, event, data, drop)>> \o stk,
               ended |-> FALSE, summary |-> NoEmit]
    ELSE [stack |-> stk, ended |-> TRUE,
          summary |-> Summary(NewFrame(ls, event, data, drop), "returned",
                              Len(stk) + 1)]

\* emit(event, data) called with the emit calls stk in progress.
emit(stk, ls, event, data, drop) ==
    IF event \in DOMAIN ls
    THEN forEach(Append(stk, NewFrame(ls, event, data, drop)), ls)
    ELSE [stack |-> stk, ended |-> TRUE,
          summary |-> Summary(NewFrame(ls, event, data, drop), "returned",
                              Len(stk) + 1)]

\* Mutant: each callback called inside try/catch, the walk goes on.
throwCaught(stk, ls) == forEach(stk, ls)

\* The running callback throws: nothing in emit catches, the forEach and the
\* emit call end there.
throw(stk, ls) ==
    [stack |-> SubSeq(stk, 1, Len(stk) - 1),
     ended |-> TRUE, summary |-> Summary(stk[Len(stk)], "threw", Len(stk))]

\* A frame after the listeners went from ls to ls2, pos being the position
\* of the member deleted from event's Set (0: none deleted).
Retarget(f, ls, ls2, event, pos) ==
    LET detach == f.live /\ f.event \notin DOMAIN ls2
        shift == f.live /\ ~detach /\ f.event = event /\ pos > 0 /\ pos <= f.idx
        quiet == f.quiet /\ Registered(ls2, f.event) = Registered(ls, f.event)
    IN  [f EXCEPT !.live = f.live /\ ~detach,
                  !.detached = IF detach THEN ls[f.event] ELSE f.detached,
                  !.idx = IF shift THEN f.idx - 1 ELSE f.idx,
                  !.quiet = quiet,
                  !.snap = IF quiet THEN f.snap ELSE <<>>,
                  !.invoked = IF quiet THEN f.invoked ELSE <<>>]

RetargetAll(stk, ls, ls2, event, pos) ==
    [i \in 1..Len(stk) |-> Retarget(stk[i], ls, ls2, event, pos)]

Range(s) == {s[i] : i \in 1..Len(s)}

(***************************************************************************)
(* Bus actions. A bus call is made by top-level code or by the callback    *)
(* that is running in the innermost emit.                                  *)
(***************************************************************************)
\* The record of a step; again says that it repeats the step before it,
\* found is the place the callback had in the event's Set when the call was
\* made (0: it was not there).
Called(op, event, callback, data) ==
    [op |-> op, event |-> event, callback |-> callback, data |-> data,
     again |-> (lastBus.op = op /\ lastBus.event = event
                /\ lastBus.callback = callback),
     found |-> IndexOf(Registered(listeners, event), callback)]

Mutate(ls2, event, pos) ==
    /\ listeners' = ls2
    /\ stack' = RetargetAll(stack, listeners, ls2, event, pos)
    /\ lastEmit' = NoEmit

On(event, callback) ==
    /\ Mutate(on(listeners, event, callback), event, 0)
    /\ cancels' = cancels \cup {<<event, callback>>}
    /\ ref' = [ref EXCEPT ![event] = @ \cup {callback}]
    /\ dropped' = [dropped EXCEPT ![event] = {}]
    /\ cleared' = {}
    /\ lastBus' = Called("on", event, callback, 0)

Cancel(event, callback) ==
    /\ <<event, callback>> \in cancels
    /\ Mutate(unsubscribe(listeners, event, callback), event,
              IndexOf(Registered(listeners, event), callback))
    /\ ref' = [ref EXCEPT ![event] = @ \ {callback}]
    /\ lastBus' = Called("cancel", event, callback, 0)
    /\ UNCHANGED <<cancels, dropped, cleared>>

Off(event, callback) ==
    /\ Mutate(off(listeners, event, callback), event,
              IndexOf(Registered(listeners, event), callback))
    /\ ref' = [ref EXCEPT ![event] = IF callback = NoCallback THEN {}
                                     ELSE @ \ {callback}]
    /\ dropped' = IF callback = NoCallback
                  THEN [dropped EXCEPT ![event] =
                            @ \cup Range(Registered(listeners, event))]
                  ELSE dropped
    /\ lastBus' = Called("off", event, callback, 0)
    /\ UNCHANGED <<cancels, cleared>>

Clear ==
    /\ Mutate(clear(listeners), NoEvent, 0)
    /\ ref' = [k \in Kinds |-> {}]
    /\ cleared' = cleared \cup UNION {Range(listeners[k]) : k \in DOMAIN listeners}
    /\ lastBus' = Called("clear", NoEvent, NoCallback, 0)
    /\ UNCHANGED <<cancels, dropped>>

Finish(r) ==
    /\ stack' = r.stack
    /\ lastEmit' = IF r.ended THEN r.summary ELSE NoEmit

Emit(event, data) ==
    /\ Finish(emit(stack, listeners, event, data, dropped[event]))
    /\ lastBus' = Called("emit", event, NoCallback, data)
    /\ UNCHANGED <<listeners, cancels, ref, dropped, cleared>>

\* The running callback returns: forEach goes on.
Return ==
    /\ stack # <<>>
    /\ Finish(forEach(stack, listeners))
    /\ lastBus' = Called("return", NoEvent, NoCallback, 0)
    /\ UNCHANGED <<listeners, cancels, ref, dropped, cleared>>

\* The running callback throws.
Throw ==
    /\ stack # <<>>
    /\ Finish(throw(stack, listeners))
    /\ lastBus' = Called("throw", NoEvent, NoCallback, 0)
    /\ UNCHANGED <<listeners, cancels, ref, dropped, cleared>>

(***************************************************************************)
(* components/settings/ConfigInput                                         *)
(*                                                                         *)
(* One mounted ConfigInput. A click on the eye button runs                 *)
(* handleToggleReveal up to its await; the rest of the handler runs when   *)
(* the revealValue request settles. The button is disabled, and so cannot  *)
(* be clicked, while isRevealing is set.                                   *)
(***************************************************************************)
NoItem == [key |-> "", is_sensitive |-> FALSE, is_masked |-> FALSE]

Items == [key : {"API_KEY"}, is_sensitive : BOOLEAN, is_masked : BOOLEAN]

MaskedValue == "sk-a******key"
StoredValue == "sk-actual-key-123"
Values == {MaskedValue, StoredValue, ""}

\* What configApi.revealValue resolves with.
RevealResults == {"sk-actual-key-123456", ""}

Placeholder == "dots"    \* the fixed eight-dot string

\* revealedValue || ""
OrEmpty(v) == IF v = Null \/ v = Str("") THEN "" ELSE v[2]

\* Mutant: the test of isMasked forgotten, the passed value always shown.
displayValueUnmasked ==
    IF item.is_sensitive /\ isRevealed THEN OrEmpty(revealedValue) ELSE value

\* The value attribute of the input the component renders.
displayValue ==
    IF item.is_sensitive
    THEN IF isRevealed
         THEN OrEmpty(revealedValue)
         ELSE IF item.is_masked THEN value ELSE Placeholder
    ELSE value

\* Mutant: the disabled attribute forgotten.
buttonAlwaysEnabled == item # NoItem /\ item.is_sensitive

\* The eye button is rendered for a sensitive item; disabled={isRevealing}.
buttonEnabled == item # NoItem /\ item.is_sensitive /\ ~isRevealing

\* The privacy warning is rendered.
warningShown == item # NoItem /\ item.is_sensitive /\ isRevealed

Stepped(op, reported) == [op |-> op, reported |-> reported]

\* render(<ConfigInput item={i} value={v} ... />)
Mount(i, v) ==
    /\ item = NoItem
    /\ item' = i
    /\ value' = v
    /\ lastInput' = Stepped("mount", {})
    /\ UNCHANGED <<isRevealed, revealedValue, isRevealing, inFlight, requests>>

\* The parent passes another value after an onChange.
Change(v) ==
    /\ item # NoItem
    /\ v # value
    /\ value' = v
    /\ lastInput' = Stepped("change", {})
    /\ UNCHANGED <<item, isRevealed, revealedValue, isRevealing, inFlight,
                   requests>>

\* Mutant: setRevealedValue(null) forgotten.
ClickHideKeepsValue ==
    /\ buttonEnabled
    /\ isRevealed
    /\ isRevealed' = FALSE
    /\ lastInput' = Stepped("hide", {})
    /\ UNCHANGED <<item, value, revealedValue, isRevealing, inFlight, requests>>

\* handleToggleReveal with isRevealed set: hide.
ClickHide ==
    /\ buttonEnabled
    /\ isRevealed
    /\ isRevealed' = FALSE
    /\ revealedValue' = Null
    /\ lastInput' = Stepped("hide", {})
    /\ UNCHANGED <<item, value, isRevealing, inFlight, requests>>

\* handleToggleReveal with isRevealed clear, up to the await.
ClickReveal ==
    /\ buttonEnabled
    /\ ~isRevealed
    /\ requests < MaxRequests
    /\ isRevealing' = TRUE
    /\ inFlight' = inFlight + 1
    /\ requests' = requests + 1
    /\ lastInput' = Stepped("reveal", {})
    /\ UNCHANGED <<item, value, isRevealed, revealedValue>>

\* Mutant: the catch branch copied from the try branch, isRevealed set.
settleRejectedRevealed ==
    [isRevealed |-> TRUE, revealedValue |-> revealedValue,
     isRevealing |-> FALSE, reported |-> {"console.error", "alert"}]

\* The handler after the await, the request fulfilled with result.value = v.
settleFulfilled(v) ==
    [isRevealed |-> TRUE, revealedValue |-> Str(v), isRevealing |-> FALSE,
     reported |-> {}]

\* The handler after the await, the request rejected: catch, then finally.
settleRejected ==
    [isRevealed |-> isRevealed, revealedValue |-> revealedValue,
     isRevealing |-> FALSE, reported |-> {"console.error", "alert"}]

Settle(op, r) ==
    /\ inFlight > 0
    /\ inFlight' = inFlight - 1
    /\ isRevealed' = r.isRevealed
    /\ revealedValue' = r.revealedValue
    /\ isRevealing' = r.isRevealing
    /\ lastInput' = Stepped(op, r.reported)
    /\ UNCHANGED <<item, value, requests>>

Fulfil(v) == Settle("fulfilled", settleFulfilled(v))

Reject == Settle("rejected", settleRejected)

(***************************************************************************)
(* utils/configGroups                                                      *)
(*                                                                         *)
(* Keys are strings; toLowerCase maps them character by character.         *)
(***************************************************************************)
Upper == "ABCDEFGHIJKLMNOPQRSTUVWXYZ"
Lower == "abcdefghijklmnopqrstuvwxyz"

\* The lower-case letter of each upper-case letter.
LowerOf ==
    [c \in {SubSeq(Upper, i, i) : i \in 1..Len(Upper)} |->
        LET i == CHOOSE j \in 1..Len(Upper) : SubSeq(Upper, j, j) = c
        IN  SubSeq(Lower, i, i)]

lowerChar(c) == IF c \in DOMAIN LowerOf THEN LowerOf[c] ELSE c

RECURSIVE toLowerCase(_)
toLowerCase(str) ==
    IF str = ""
    THEN ""
    ELSE lowerChar(SubSeq(str, 1, 1)) \o toLowerCase(SubSeq(str, 2, Len(str)))

startsWith(str, prefix) ==
    Len(str) >= Len(prefix) /\ SubSeq(str, 1, Len(prefix)) = prefix

NoGroup == "none"

\* Mutant: the key compared as it is written, toLowerCase forgotten.
groupOfCaseSensitive(config) ==
    LET key == config.key
    IN  IF startsWith(key, "database_") \/ startsWith(key, "redis_")
           \/ startsWith(key, "db_")
        THEN "database"
        ELSE IF startsWith(key, "anthropic_")
        THEN "llm"
        ELSE IF startsWith(key, "image_") \/ key = "enable_image_to_image"
        THEN "image"
        ELSE IF startsWith(key, "video_") \/ startsWith(key, "doubao_")
                \/ key = "enable_image_to_video"
        THEN "video"
        ELSE NoGroup

\* The group the forEach body pushes config to, NoGroup when it pushes to none.
groupOf(config) ==
    LET key == toLowerCase(config.key)
    IN  IF startsWith(key, "database_") \/ startsWith(key, "redis_")
           \/ startsWith(key, "db_")
        THEN "database"
        ELSE IF startsWith(key, "anthropic_")
        THEN "llm"
        ELSE IF startsWith(key, "image_") \/ key = "enable_image_to_image"
        THEN "image"
        ELSE IF startsWith(key, "video_") \/ startsWith(key, "doubao_")
                \/ key = "enable_image_to_video"
        THEN "video"
        ELSE NoGroup

\* groups[name] after the forEach.
groupItems(cfgs, name) == SelectSeq(cfgs, LAMBDA c : groupOf(c) = name)

\* The sections returned, the empty ones filtered out. A section's title is
\* a fixed text of its key, written in characters a TLA+ string cannot hold;
\* it is left out of the record.
groupConfigs(cfgs) ==
    SelectSeq(<<[key |-> "database", items |-> groupItems(cfgs, "database")],
                [key |-> "llm", items |-> groupItems(cfgs, "llm")],
                [key |-> "image", items |-> groupItems(cfgs, "image")],
                [key |-> "video", items |-> groupItems(cfgs, "video")]>>,
              LAMBDA section : Len(section.items) > 0)

ConfigKeys ==
    {"DATABASE_URL", "redis_url", "Db_Echo", "ANTHROPIC_API_KEY",
     "IMAGE_API_KEY", "ENABLE_IMAGE_TO_IMAGE", "video_model", "DOUBAO_KEY",
     "enable_image_to_video", "APP_NAME", "IMAGES", "API_DB_URL"}

ConfigItems == [key : ConfigKeys]

ConfigLists == UNION {[1..n -> ConfigItems] : n \in 0..MaxConfigs}

NotGrouped == <<[key |-> "not called", items |-> <<>>]>>

GroupConfigs(cfgs) ==
    /\ configs' = cfgs
    /\ sections' = groupConfigs(cfgs)

(***************************************************************************)
(* Specifications.                                                         *)
(***************************************************************************)
Init ==
    /\ toasts = <<>>
    /\ now = 0
    /\ calls = 0
    /\ lastOp = [op |-> "init", input |-> NoInput, id |-> NoId, preLen |-> 0,
                 before |-> "init"]
    /\ listeners = EmptyMap
    /\ stack = <<>>
    /\ cancels = {}
    /\ lastBus = [op |-> "init", event |-> NoEvent, callback |-> NoCallback,
                  data |-> 0, again |-> FALSE, found |-> 0]
    /\ lastEmit = NoEmit
    /\ ref = [k \in Kinds |-> {}]
    /\ dropped = [k \in Kinds |-> {}]
    /\ cleared = {}
    /\ item = NoItem
    /\ value = ""
    /\ isRevealed = FALSE
    /\ revealedValue = Null
    /\ isRevealing = FALSE
    /\ inFlight = 0
    /\ requests = 0
    /\ lastInput = Stepped("init", {})
    /\ configs = <<>>
    /\ sections = NotGrouped
    /\ resubscribed = {}

\* The store driven directly and through toast.success.
ToastNext ==
    \/ \E t \in ToastInputs : AddToast(t) /\ UNCHANGED <<calls, busVars, inputVars, groupVars, resubscribed>>
    \/ \E o \in PlainOptions : Success(o) /\ UNCHANGED <<calls, busVars, inputVars, groupVars, resubscribed>>
    \/ \E id \in Ids : RemoveToast(id) /\ UNCHANGED <<calls, busVars, inputVars, groupVars, resubscribed>>
    \/ ClearToasts /\ UNCHANGED <<calls, busVars, inputVars, groupVars, resubscribed>>

ToastSpec == Init /\ [][ToastNext]_vars

\* The facade: every constructor with every options shape, a few calls.
Counted == calls < MaxCalls /\ calls' = calls + 1
    /\ UNCHANGED <<busVars, inputVars, groupVars, resubscribed>>

FacadeNext ==
    \/ \E o \in AllOptions : Success(o) /\ Counted
    \/ \E o \in AllOptions : Error(o) /\ Counted
    \/ \E o \in AllOptions : Warning(o) /\ Counted
    \/ \E o \in AllOptions : Info(o) /\ Counted
    \/ \E id \in Ids : RemoveToast(id) /\ Counted
    \/ ClearToasts /\ Counted

FacadeSpec == Init /\ [][FacadeNext]_vars

\* The event bus, its listeners registering and unregistering at will but
\* not emitting themselves.
BusNext ==
    \/ \E k \in Kinds, cb \in Callbacks : On(k, cb) /\ UNCHANGED <<toastVars, inputVars, groupVars, resubscribed>>
    \/ \E k \in Kinds, cb \in Callbacks : Cancel(k, cb) /\ UNCHANGED <<toastVars, inputVars, groupVars, resubscribed>>
    \/ \E k \in Kinds, cb \in Callbacks \cup {NoCallback} :
            Off(k, cb) /\ UNCHANGED <<toastVars, inputVars, groupVars, resubscribed>>
    \/ Clear /\ UNCHANGED <<toastVars, inputVars, groupVars, resubscribed>>
    \/ \E k \in Kinds, d \in Payloads :
            stack = <<>> /\ Emit(k, d) /\ UNCHANGED <<toastVars, inputVars, groupVars, resubscribed>>
    \/ Return /\ UNCHANGED <<toastVars, inputVars, groupVars, resubscribed>>
    \/ Throw /\ UNCHANGED <<toastVars, inputVars, groupVars, resubscribed>>

BusSpec == Init /\ [][BusNext]_vars

\* Re-entrant emit: listeners registered by top-level code, emit called by
\* top-level code and by the running listener, to a bounded depth.
NestNext ==
    \/ \E k \in Kinds, cb \in Callbacks :
            stack = <<>> /\ On(k, cb) /\ UNCHANGED <<toastVars, inputVars, groupVars, resubscribed>>
    \/ \E k \in Kinds, d \in Payloads :
            Len(stack) < MaxDepth /\ Emit(k, d) /\ UNCHANGED <<toastVars, inputVars, groupVars, resubscribed>>
    \/ Return /\ UNCHANGED <<toastVars, inputVars, groupVars, resubscribed>>

NestSpec == Init /\ [][NestNext]_vars

\* One ConfigInput: mounted with any item, its value edited, its eye button
\* clicked, its requests fulfilled or rejected.
InputNext ==
    \/ \E i \in Items, v \in Values :
            Mount(i, v) /\ UNCHANGED <<toastVars, busVars, groupVars, resubscribed>>
    \/ \E v \in Values : Change(v) /\ UNCHANGED <<toastVars, busVars, groupVars, resubscribed>>
    \/ ClickHide /\ UNCHANGED <<toastVars, busVars, groupVars, resubscribed>>
    \/ ClickReveal /\ UNCHANGED <<toastVars, busVars, groupVars, resubscribed>>
    \/ \E v \in RevealResults : Fulfil(v) /\ UNCHANGED <<toastVars, busVars, groupVars, resubscribed>>
    \/ Reject /\ UNCHANGED <<toastVars, busVars, groupVars, resubscribed>>

InputSpec == Init /\ [][InputNext]_vars

\* on(event, callback), with the record of a call made for a pair that a
\* cancel function exists for already.
OnAgain(event, callback) ==
    /\ On(event, callback)
    /\ resubscribed' = IF <<event, callback>> \in cancels
                       THEN resubscribed \cup {<<event, callback>>}
                       ELSE resubscribed

\* Subscribers that share callbacks: on, the cancel functions, off and clear
\* called by top-level code in any order.
ResubNext ==
    \/ \E k \in Kinds, cb \in Callbacks :
            OnAgain(k, cb) /\ UNCHANGED <<toastVars, inputVars, groupVars>>
    \/ \E k \in Kinds, cb \in Callbacks :
            Cancel(k, cb)
            /\ UNCHANGED <<toastVars, inputVars, groupVars, resubscribed>>
    \/ \E k \in Kinds, cb \in Callbacks \cup {NoCallback} :
            Off(k, cb)
            /\ UNCHANGED <<toastVars, inputVars, groupVars, resubscribed>>
    \/ Clear /\ UNCHANGED <<toastVars, inputVars, groupVars, resubscribed>>

ResubSpec == Init /\ [][ResubNext]_vars

\* Dispatches whose listeners call on, off and the cancel functions for the
\* kind that is being dispatched, and return, and do not emit: there is at
\* most one frame. A callback that is running returns at last.
SameKind(event) == IF stack = <<>> THEN TRUE ELSE stack[1].event = event

LoopReturn ==
    Return /\ UNCHANGED <<toastVars, inputVars, groupVars, resubscribed>>

LoopNext ==
    \/ \E k \in Kinds, cb \in Callbacks :
            SameKind(k) /\ On(k, cb)
            /\ UNCHANGED <<toastVars, inputVars, groupVars, resubscribed>>
    \/ \E k \in Kinds, cb \in Callbacks :
            SameKind(k) /\ Cancel(k, cb)
            /\ UNCHANGED <<toastVars, inputVars, groupVars, resubscribed>>
    \/ \E k \in Kinds, cb \in Callbacks \cup {NoCallback} :
            SameKind(k) /\ Off(k, cb)
            /\ UNCHANGED <<toastVars, inputVars, groupVars, resubscribed>>
    \/ \E k \in Kinds, d \in Payloads :
            stack = <<>> /\ Emit(k, d)
            /\ UNCHANGED <<toastVars, inputVars, groupVars, resubscribed>>
    \/ LoopReturn

LoopSpec == Init /\ [][LoopNext]_vars /\ WF_vars(LoopReturn)

\* groupConfigs called with every list of at most MaxConfigs items, once in
\* a run: the function keeps nothing between calls.
GroupNext ==
    /\ sections = NotGrouped
    /\ \E cfgs \in ConfigLists :
            /\ GroupConfigs(cfgs)
            /\ UNCHANGED <<toastVars, busVars, inputVars, resubscribed>>

GroupSpec == Init /\ [][GroupNext]_vars

Next ==
    \/ ToastNext \/ FacadeNext \/ BusNext \/ NestNext \/ InputNext
    \/ GroupNext \/ ResubNext \/ LoopNext

Spec == Init /\ [][Next]_vars

(***************************************************************************)
(* Properties of the toast store.                                          *)
(***************************************************************************)
AddOps == Severities \cup {"addToast"}

HasId(q, id) == \E i \in 1..Len(q) : q[i].id = id

LastN(s, n) == IF Len(s) <= n THEN s ELSE SubSeq(s, Len(s) - n + 1, Len(s))

WithId(t, id) == [k \in (DOMAIN t) \cup {"id"} |-> IF k = "id" THEN id ELSE t[k]]

\* C1: whatever sequence of addToast, removeToast and clearToasts calls is
\* made, directly or through a severity constructor, the queue holds at most
\* 5 toasts.
C1_AtMostFive == Len(toasts) <= 5

\* A constructor called on a full queue left a full queue.
C1_Witness ==
    lastOp.op = "success" /\ lastOp.preLen = 5 /\ Len(toasts) = 5

\* C2: addToast(t) never rejects (it can be called in every state): the
\* queue after it is the last 5 entries of the queue before it followed by
\* t, so t is at the tail, nothing else is removed below 5 entries, only the
\* head is removed at 5, and the survivors keep their order.
C2_AddKeepsLastFive ==
    /\ [](\A t \in ToastInputs : ENABLED AddToast(t))
    /\ [][/\ lastOp'.op = "addToast" =>
                toasts' = LastN(Append(toasts,
                                       WithId(lastOp'.input, lastOp'.id)), 5)
          /\ lastOp'.op \in Severities =>
                /\ Len(toasts') >= 1
                /\ toasts'[Len(toasts')].id = lastOp'.id
                /\ toasts' = LastN(Append(toasts, toasts'[Len(toasts')]), 5)]_vars

\* addToast on a full queue: the new toast is the fifth of five.
C2_Witness ==
    /\ lastOp.op = "addToast"
    /\ lastOp.preLen = 5
    /\ Len(toasts) = 5
    /\ toasts[5] = WithId(lastOp.input, lastOp.id)

\* C6: removeToast(id) can be called in every state; with an id no toast
\* carries it leaves the queue as it is, and after any removeToast(id) no
\* toast carries the id, so that a second call changes nothing.
C6_RemoveAbsentIsNoOp ==
    /\ [](\A id \in Ids : ENABLED RemoveToast(id))
    /\ [][lastOp'.op = "removeToast" =>
                /\ ~HasId(toasts, lastOp'.id) => toasts' = toasts
                /\ ~HasId(toasts', lastOp'.id)]_vars

\* A second removeToast in a row found a non-empty queue and left it whole.
C6_Witness ==
    /\ lastOp.op = "removeToast"
    /\ lastOp.before = "removeToast"
    /\ lastOp.preLen = Len(toasts)
    /\ Len(toasts) >= 1
    /\ ~HasId(toasts, lastOp.id)

\* The documented defaults.
DocumentedDefault(severity) ==
    CASE severity = "success" -> 3000
      [] severity = "error" -> 5000
      [] severity = "warning" -> 4000
      [] severity = "info" -> 3000

\* C7: a severity constructor called with title and message only adds a
\* toast of its own severity with that severity's default duration:
\* success 3000, error 5000, warning 4000, info 3000.
C7_PlainCallUsesDefault ==
    (lastOp.op \in Severities /\ DOMAIN lastOp.input = {"title", "message"}) =>
        /\ Len(toasts) >= 1
        /\ toasts[Len(toasts)].id = lastOp.id
        /\ toasts[Len(toasts)].type = lastOp.op
        /\ toasts[Len(toasts)].duration = Num(DocumentedDefault(lastOp.op))
        /\ toasts[Len(toasts)].title = lastOp.input.title
        /\ toasts[Len(toasts)].message = lastOp.input.message

\* toast.warning with title and message only added a 4000 ms warning.
C7_Witness ==
    /\ lastOp.op = "warning"
    /\ DOMAIN lastOp.input = {"title", "message"}
    /\ Len(toasts) >= 1
    /\ toasts[Len(toasts)].type = "warning"
    /\ toasts[Len(toasts)].duration = Num(4000)

\* C9: clearToasts() leaves the queue empty whatever it held, and the next
\* addToast starts from the empty queue.
C9_ClearEmpties ==
    /\ [](lastOp.op = "clearToasts" => toasts = <<>>)
    /\ [][(lastOp.op = "clearToasts" /\ lastOp'.op \in AddOps) =>
            (Len(toasts') = 1 /\ toasts'[1].id = lastOp'.id)]_vars

\* clearToasts right after toast.success added a toast.
C9_Witness ==
    /\ lastOp.op = "clearToasts"
    /\ lastOp.before = "success"
    /\ lastOp.preLen >= 1
    /\ toasts = <<>>

Persistent(t) == t.duration = Num(0)

PersistentOf(q) == SelectSeq(q, Persistent)

\* C11 as claimed: a toast added with duration 0 stays in the queue until a
\* removeToast call with its id or a clearToasts call is made; no other
\* operation removes it.
C11_PersistsUntilDismissed ==
    [][\A i \in 1..Len(toasts) :
            (Persistent(toasts[i]) /\ ~HasId(toasts', toasts[i].id)) =>
                \/ lastOp'.op = "removeToast" /\ lastOp'.id = toasts[i].id
                \/ lastOp'.op = "clearToasts"]_vars

\* C11 as amended: a toast with duration 0 stays in the queue, in its place
\* among the others, until a removeToast call with its id or a clearToasts
\* call is made, or until it is the oldest of 5 toasts and an addToast
\* evicts it; no other operation removes it.
C11_PersistsUntilDismissedOrEvicted ==
    [][/\ lastOp'.op \in AddOps =>
            \A i \in 1..Len(toasts) :
                Persistent(toasts[i]) =>
                    IF Len(toasts) = 5
                    THEN i = 1 \/ toasts'[i - 1] = toasts[i]
                    ELSE toasts'[i] = toasts[i]
       /\ lastOp'.op = "removeToast" =>
            PersistentOf(toasts') =
                SelectSeq(PersistentOf(toasts), LAMBDA t : t.id # lastOp'.id)
       /\ lastOp'.op \in AddOps \cup {"removeToast", "clearToasts"}]_vars

\* toast.success on a full queue evicted the head and left a toast that
\* never expires at the head of the queue.
C11_Witness ==
    /\ lastOp.op = "success"
    /\ lastOp.preLen = 5
    /\ Len(toasts) = 5
    /\ Persistent(toasts[1])

\* C12: for each of the four severity constructors and every numeric
\* options.duration, 0 included, the added toast's duration is
\* options.duration and its type is the constructor's severity.
C12_CallerDurationOverrides ==
    (/\ lastOp.op \in Severities
     /\ "duration" \in DOMAIN lastOp.input
     /\ lastOp.input.duration # Undefined) =>
        /\ Len(toasts) >= 1
        /\ toasts[Len(toasts)].id = lastOp.id
        /\ toasts[Len(toasts)].duration = lastOp.input.duration
        /\ toasts[Len(toasts)].type = lastOp.op

\* toast.error called with duration 0 added an error toast that never expires.
C12_Witness ==
    /\ lastOp.op = "error"
    /\ "duration" \in DOMAIN lastOp.input
    /\ lastOp.input.duration = Num(0)
    /\ Len(toasts) >= 1
    /\ toasts[Len(toasts)].type = "error"
    /\ toasts[Len(toasts)].duration = Num(0)

\* C17: addToast gives every toast a fresh id: no two toasts in the queue
\* have the same id, and the id given to a new toast is the id of no toast
\* in the queue it is added to.
C17_IdsFresh ==
    /\ [](\A i, j \in 1..Len(toasts) : toasts[i].id = toasts[j].id => i = j)
    /\ [][lastOp'.op \in AddOps => ~HasId(toasts, lastOp'.id)]_vars

\* C18: a timer expiry, removeToast(id) with the id the timer was created
\* for, removes at most its own toast, and leaves the queue unchanged when
\* that toast is gone. A removeToast(id) made while a toast with that id and
\* a duration other than 0 is in the queue may be that toast's timer.
C18_ExpiryRemovesOwnToastOnly ==
    [][lastOp'.op = "removeToast" =>
        /\ (\E i \in 1..Len(toasts) :
                toasts[i].id = lastOp'.id /\ ~Persistent(toasts[i])) =>
                    Len(toasts') = Len(toasts) - 1
        /\ ~HasId(toasts, lastOp'.id) => toasts' = toasts]_vars

\* C27: every toast a severity constructor puts in the queue has a numeric
\* duration, whether options gives duration as a number, omits it, or holds
\* it as undefined.
C27_DurationAlwaysNumber ==
    lastOp.op \in Severities =>
        /\ Len(toasts) >= 1
        /\ toasts[Len(toasts)].id = lastOp.id
        /\ toasts[Len(toasts)].duration # Undefined
        /\ toasts[Len(toasts)].duration[1] = "number"

(***************************************************************************)
(* Properties of the event bus.                                            *)
(***************************************************************************)
\* The callbacks of an invocation log, in order.
Invokees(log) == [j \in 1..Len(log) |-> log[j][1]]

\* The log of calling the first n callbacks of reg, in order, with data.
Calls(reg, n, data) == [j \in 1..n |-> <<reg[j], data>>]

Other(k) == CHOOSE o \in Kinds : o # k

\* C3: an emit(kind, payload) whose callbacks return and leave kind's
\* registrations alone invokes every callback registered for kind exactly
\* once, in registration order, with that payload, and no callback that is
\* registered only for another kind.
C3_EmitCallsEachInOrder ==
    /\ \A i \in 1..Len(stack) :
            stack[i].quiet =>
                /\ stack[i].snap = Registered(listeners, stack[i].event)
                /\ Len(stack[i].invoked) <= Len(stack[i].snap)
                /\ stack[i].invoked =
                       Calls(stack[i].snap, Len(stack[i].invoked), stack[i].data)
    /\ (lastEmit.outcome = "returned" /\ lastEmit.quiet) =>
            /\ lastEmit.snap = Registered(listeners, lastEmit.event)
            /\ lastEmit.invoked =
                   Calls(lastEmit.snap, Len(lastEmit.snap), lastEmit.data)

\* An emit returned after calling L2 then L1, registered in that order, while
\* the other kind had a listener of its own.
C3_Witness ==
    /\ lastEmit.outcome = "returned"
    /\ lastEmit.quiet
    /\ lastEmit.snap = <<"L2", "L1">>
    /\ lastEmit.invoked = <<<<"L2", lastEmit.data>>, <<"L1", lastEmit.data>>>>
    /\ Registered(listeners, Other(lastEmit.event)) = <<"L1">>

\* C4: the cancel function returned by on(kind, callback) is idempotent:
\* after it ran the callback is not registered for kind, run when the
\* callback is not registered it changes nothing, and so a second run in a
\* row changes nothing.
C4_CancelIdempotent ==
    [][lastBus'.op = "cancel" =>
        /\ lastBus'.callback
               \notin Range(Registered(listeners', lastBus'.event))
        /\ lastBus'.callback \notin Range(Registered(listeners, lastBus'.event))
               => listeners' = listeners
        /\ lastBus'.again => listeners' = listeners]_vars

\* The same cancel function ran twice in a row while another callback was
\* registered for the kind.
C4_Witness ==
    /\ lastBus.op = "cancel"
    /\ lastBus.again
    /\ Len(Registered(listeners, lastBus.event)) >= 1

\* C5: after any sequence of on, off, cancel and clear calls the callbacks
\* the bus holds for each kind are those of a plain set replaying the adds
\* and removes: nothing removed remains and no callback is held twice.
C5_ListenersRefineSets ==
    \A k \in Kinds :
        /\ Range(Registered(listeners, k)) = ref[k]
        /\ Len(Registered(listeners, k)) = Cardinality(ref[k])

\* A callback registered a second time, another one removed earlier.
C5_Witness ==
    /\ lastBus.op = "on"
    /\ lastBus.again
    /\ \E c \in cancels : c[1] = lastBus.event /\ c[2] \notin ref[c[1]]
    /\ ref[Other(lastBus.event)] # {}

\* C8: an emit(kind) made after off(kind) and before any new on(kind, ...)
\* invokes none of the listeners the off removed; an emit that returns
\* invokes each listener registered for kind once, with the emit's payload.
C8_OffKindSilences ==
    /\ \A i \in 1..Len(stack) :
            Range(Invokees(stack[i].invoked)) \cap stack[i].drop = {}
    /\ lastEmit.drop # {} => lastEmit.invoked = <<>>
    /\ (lastEmit.outcome = "returned" /\ lastEmit.quiet) =>
            \A cb \in Range(lastEmit.snap) :
                Cardinality({j \in 1..Len(lastEmit.invoked) :
                                lastEmit.invoked[j][1] = cb}) = 1
                /\ \A j \in 1..Len(lastEmit.invoked) :
                        lastEmit.invoked[j][2] = lastEmit.data

\* emit of a kind whose listener L1 was removed by off(kind): nothing called.
C8_Witness ==
    /\ lastBus.op = "emit"
    /\ "L1" \in lastEmit.drop
    /\ lastEmit.outcome = "returned"
    /\ lastEmit.invoked = <<>>

\* after holds the members of before other than cb, each once, in the order
\* they have in before.
KeptInOrder(before, after, cb) ==
    /\ Range(after) = Range(before) \ {cb}
    /\ Len(after) = Cardinality(Range(after))
    /\ \A a, b \in Range(after) :
            IndexOf(after, a) < IndexOf(after, b)
                <=> IndexOf(before, a) < IndexOf(before, b)

\* Every kind other than event has the callbacks it had, in the same order.
OtherKindsKept(event) ==
    \A k \in Kinds \ {event} :
        /\ (k \in DOMAIN listeners') = (k \in DOMAIN listeners)
        /\ Registered(listeners', k) = Registered(listeners, k)

\* C13: off(kind, callback) with a callback removes only that callback from
\* kind's listener set: every other callback registered for kind stays
\* registered in its original relative order, and the listener sets of all
\* other kinds are unchanged.
C13_OffCallbackRemovesOnlyIt ==
    [][(lastBus'.op = "off" /\ lastBus'.callback # NoCallback) =>
        /\ KeptInOrder(Registered(listeners, lastBus'.event),
                       Registered(listeners', lastBus'.event),
                       lastBus'.callback)
        /\ (lastBus'.event \in DOMAIN listeners')
               = (lastBus'.event \in DOMAIN listeners)
        /\ OtherKindsKept(lastBus'.event)]_vars

\* off(kind, L1) took L1, registered first, from before L2, while L1 stayed
\* registered for the other kind.
C13_Witness ==
    /\ lastBus.op = "off"
    /\ lastBus.callback = "L1"
    /\ lastBus.found = 1
    /\ Registered(listeners, lastBus.event) = <<"L2">>
    /\ "L1" \in Range(Registered(listeners, Other(lastBus.event)))

\* C14: clear() removes the listener sets of all kinds in one step: after
\* it, and until on is called again, the bus holds no listener set and an
\* emit of any kind returns at once, having invoked no callback.
C14_ClearSilencesAll ==
    /\ lastBus.op = "clear" => listeners = EmptyMap
    /\ cleared # {} => listeners = EmptyMap
    /\ (lastBus.op = "emit" /\ cleared # {}) =>
            /\ lastEmit.event = lastBus.event
            /\ lastEmit.outcome = "returned"
            /\ lastEmit.invoked = <<>>
            /\ lastEmit.depth = Len(stack) + 1

\* An emit after a clear() that removed L1 and L2: nothing was called.
C14_Witness ==
    /\ lastBus.op = "emit"
    /\ cleared = {"L1", "L2"}
    /\ lastEmit.event = lastBus.event
    /\ lastEmit.outcome = "returned"
    /\ lastEmit.invoked = <<>>

\* C15: on(kind, callback) with a callback already registered for kind
\* changes nothing, neither the listener set nor the callback's place in
\* it, and an emit of a kind invokes none of its callbacks twice.
C15_ReRegisterIsNoOp ==
    /\ [][(/\ lastBus'.op = "on"
           /\ lastBus'.callback
                  \in Range(Registered(listeners, lastBus'.event))) =>
                listeners' = listeners]_vars
    /\ [](\A i \in 1..Len(stack) :
            \A m, n \in 1..Len(stack[i].invoked) :
                stack[i].invoked[m][1] = stack[i].invoked[n][1] => m = n)
    /\ [](\A m, n \in 1..Len(lastEmit.invoked) :
            lastEmit.invoked[m][1] = lastEmit.invoked[n][1] => m = n)

\* on(kind, callback) called for the first of two registered callbacks: it is
\* still the first of two.
C15_Witness ==
    /\ lastBus.op = "on"
    /\ lastBus.found = 1
    /\ Len(Registered(listeners, lastBus.event)) = 2
    /\ Registered(listeners, lastBus.event)[1] = lastBus.callback

\* C16: re-entrant emit is dispatched depth-first. When a listener running
\* under emit(k1, p1) calls emit(k2, p2), the outer call waits in that
\* listener: the emit calls under the innermost one do not move, the inner
\* call returns to the listener that made it only after it has invoked
\* every listener of k2, and only then can the outer forEach go on.
C16_NestedEmitDepthFirst ==
    [][/\ \A i \in 1..(Len(stack) - 1) :
            i <= Len(stack') /\ stack'[i] = stack[i]
       /\ Len(stack') < Len(stack) =>
            /\ Len(stack') = Len(stack) - 1
            /\ lastEmit'.outcome = "returned"
            /\ lastEmit'.depth = Len(stack)
            /\ lastEmit'.event = stack[Len(stack)].event
            /\ lastEmit'.quiet =>
                    lastEmit'.invoked =
                        Calls(lastEmit'.snap, Len(lastEmit'.snap), lastEmit'.data)
       /\ (lastBus'.op = "emit" /\ stack # <<>>) =>
            /\ Len(stack') >= Len(stack)
            /\ stack'[Len(stack)] = stack[Len(stack)]
            /\ Len(stack') > Len(stack) =>
                    /\ Len(stack') = Len(stack) + 1
                    /\ stack'[Len(stack')].event = lastBus'.event
                    /\ stack'[Len(stack')].data = lastBus'.data
                    /\ stack'[Len(stack')].idx = 1
            /\ Len(stack') = Len(stack) =>
                    /\ lastEmit'.outcome = "returned"
                    /\ lastEmit'.event = lastBus'.event
                    /\ lastEmit'.invoked = <<>>
                    /\ Registered(listeners, lastBus'.event) = <<>>]_vars

\* An emit made by the first of two listeners of a kind, for the same kind
\* and another payload, has called both listeners and returned; the outer
\* emit is still at its first listener.
C16_Witness ==
    /\ Len(stack) = 1
    /\ stack[1].idx = 1
    /\ Len(Registered(listeners, stack[1].event)) = 2
    /\ lastEmit.outcome = "returned"
    /\ lastEmit.depth = 2
    /\ lastEmit.event = stack[1].event
    /\ lastEmit.data # stack[1].data
    /\ Len(lastEmit.invoked) = 2

\* C19: the cancel function returned by on(kind, callback) removes that
\* callback from that kind only: the other callbacks of the kind stay
\* registered in their order, and the listener sets of the other kinds, the
\* same callback registered under another kind included, are unchanged.
C19_CancelRemovesOnlyIt ==
    [][lastBus'.op = "cancel" =>
        /\ KeptInOrder(Registered(listeners, lastBus'.event),
                       Registered(listeners', lastBus'.event),
                       lastBus'.callback)
        /\ (lastBus'.event \in DOMAIN listeners')
               = (lastBus'.event \in DOMAIN listeners)
        /\ OtherKindsKept(lastBus'.event)]_vars

\* The cancel function of L1, registered after L2, ran: L2 is left, and L1
\* is still registered for the other kind.
C19_Witness ==
    /\ lastBus.op = "cancel"
    /\ lastBus.callback = "L1"
    /\ lastBus.found = 2
    /\ Registered(listeners, lastBus.event) = <<"L2">>
    /\ "L1" \in Range(Registered(listeners, Other(lastBus.event)))

\* C25: removal takes effect at once, also inside a dispatch in progress:
\* after off(kind), off(kind, cb), a cancel function or clear() has
\* returned, no callback it removed is invoked for kind unless it is
\* registered again. So every callback a forEach invokes is registered for
\* the kind at the time it is invoked.
C25_RemovedNeverInvoked ==
    [][(/\ lastBus'.op \in {"emit", "return"}
        /\ lastEmit' = NoEmit
        /\ stack' # <<>>) =>
            stack'[Len(stack')].running
                \in Range(Registered(listeners', stack'[Len(stack')].event))]_vars

\* A cancel function of a pair that on was called for again has just run and
\* found the callback registered. The cancel functions of a pair all do the
\* same, so the one that ran may be the one an earlier on call returned.
EarlierCancelRan ==
    /\ lastBus.op = "cancel"
    /\ lastBus.found > 0
    /\ <<lastBus.event, lastBus.callback>> \in resubscribed

\* C26 as claimed: a cancel function cancels only the subscription of the on
\* call that returned it; if the same callback was registered again for the
\* kind by a later on call, invoking the earlier cancel function leaves the
\* callback registered.
C26_EarlierCancelSparesLater ==
    EarlierCancelRan =>
        lastBus.callback \in Range(Registered(listeners, lastBus.event))

\* C26 as amended: a cancel function is bound to its kind and callback, not
\* to the on call that returned it; if the same callback was registered
\* again for the kind by a later on call, invoking the earlier cancel
\* function removes the callback from the kind all the same.
C26_CancelBoundToPair ==
    (/\ lastBus.op = "cancel"
     /\ <<lastBus.event, lastBus.callback>> \in resubscribed) =>
        /\ lastBus.callback \notin Range(Registered(listeners, lastBus.event))
        /\ lastBus.callback \notin ref[lastBus.event]
        /\ <<lastBus.event, lastBus.callback>> \in cancels

\* L1 was registered for a kind by two on calls, after L2; a cancel function
\* of L1 ran and only L2 is left.
C26_Witness ==
    /\ EarlierCancelRan
    /\ lastBus.callback = "L1"
    /\ lastBus.found = 2
    /\ Registered(listeners, lastBus.event) = <<"L2">>

\* C24: emit(kind, payload) returns to its caller whenever every listener
\* invocation returns and no listener calls emit, also when listeners call
\* on, off or cancel functions for the kind during the dispatch.
C24_EmitTerminates == (stack # <<>>) ~> (stack = <<>>)

\* C10 as claimed: when a callback throws during emit(kind, payload), every
\* other callback registered for kind is still invoked by that emit.
C10_FailuresIsolated ==
    (lastEmit.outcome = "threw" /\ lastEmit.quiet) =>
        Range(Invokees(lastEmit.invoked)) = Range(lastEmit.snap)

\* C10 as amended: a callback that throws ends the emit call there, with the
\* callbacks registered before it invoked once each in order and those
\* registered after it not invoked by that emit.
C10_ThrowEndsEmit ==
    /\ lastBus.op = "throw" =>
            /\ lastEmit.outcome = "threw"
            /\ Len(stack) = lastEmit.depth - 1
    /\ (lastEmit.outcome = "threw" /\ lastEmit.quiet) =>
            /\ Len(lastEmit.invoked) >= 1
            /\ Len(lastEmit.invoked) <= Len(lastEmit.snap)
            /\ lastEmit.invoked =
                   Calls(lastEmit.snap, Len(lastEmit.invoked), lastEmit.data)

\* The first of two registered callbacks threw: the second was not called.
C10_Witness ==
    /\ lastBus.op = "throw"
    /\ lastEmit.outcome = "threw"
    /\ lastEmit.quiet
    /\ Len(lastEmit.snap) = 2
    /\ Len(lastEmit.invoked) = 1

(***************************************************************************)
(* Properties of ConfigInput.                                              *)
(***************************************************************************)
\* What a sensitive item shows while hidden.
maskedDisplay == IF item.is_masked THEN value ELSE Placeholder

\* C20: when the revealValue request of a sensitive item fails, the
\* component does not enter the revealed state, keeps displaying the masked
\* value, reports the error, and isRevealing is reset, so that the reveal
\* button is enabled again.
C20_RevealFailureStaysHidden ==
    lastInput.op = "rejected" =>
        /\ ~isRevealed
        /\ revealedValue = Null
        /\ ~warningShown
        /\ displayValue = maskedDisplay
        /\ lastInput.reported = {"console.error", "alert"}
        /\ ~isRevealing
        /\ buttonEnabled

\* The request of a sensitive masked item was rejected: the masked value is
\* displayed and the button can be clicked.
C20_Witness ==
    /\ lastInput.op = "rejected"
    /\ item.is_sensitive
    /\ item.is_masked
    /\ value = MaskedValue
    /\ displayValue = MaskedValue
    /\ "alert" \in lastInput.reported
    /\ buttonEnabled

\* C21: a successful reveal followed by a hide click brings a sensitive item
\* back to the hidden state: the masked value is displayed, the revealed
\* value is discarded, the privacy warning is gone and no request is sent
\* by the hide; a later reveal sends a request again.
C21_RevealHideRoundTrip ==
    /\ [](lastInput.op = "hide" =>
            /\ ~isRevealed
            /\ revealedValue = Null
            /\ ~warningShown
            /\ displayValue = maskedDisplay
            /\ inFlight = 0
            /\ buttonEnabled)
    /\ [][lastInput'.op = "hide" =>
            /\ isRevealed
            /\ displayValue = OrEmpty(revealedValue)
            /\ requests' = requests
            /\ inFlight' = inFlight]_vars
    /\ [][lastInput'.op = "reveal" =>
            /\ requests' = requests + 1
            /\ inFlight' = inFlight + 1
            /\ ~isRevealed']_vars

\* A masked item was revealed and hidden again: the masked value is shown.
C21_Witness ==
    /\ lastInput.op = "hide"
    /\ item.is_sensitive
    /\ item.is_masked
    /\ value = MaskedValue
    /\ displayValue = MaskedValue
    /\ requests >= 1
    /\ ~warningShown

\* C22: while a revealValue request is in flight the toggle button is
\* disabled: at most one request is outstanding at any time, and the
\* revealed state changes only when the request settles.
C22_OneRequestInFlight ==
    /\ [](inFlight <= 1)
    /\ []((inFlight = 1) <=> isRevealing)
    /\ [](isRevealing => ~buttonEnabled)
    /\ [][inFlight > 0 =>
            /\ lastInput'.op \in {"fulfilled", "rejected", "change"}
            /\ isRevealed' # isRevealed => lastInput'.op = "fulfilled"]_vars

\* The second request of a component is in flight and the button disabled.
C22_Witness ==
    /\ inFlight = 1
    /\ requests = 2
    /\ isRevealing
    /\ item.is_sensitive
    /\ ~buttonEnabled

\* C23: a sensitive ConfigInput that is not revealed shows the passed value
\* only when the item is marked masked and the fixed placeholder otherwise;
\* it is revealed, and shows a value revealValue answered, only after a
\* request was fulfilled.
C23_HiddenShowsMaskOnly ==
    /\ []((item # NoItem /\ item.is_sensitive /\ ~isRevealed) =>
            /\ revealedValue = Null
            /\ item.is_masked => displayValue = value
            /\ ~item.is_masked =>
                    displayValue = Placeholder /\ displayValue \notin Values)
    /\ [](isRevealed =>
            /\ item.is_sensitive
            /\ revealedValue # Null
            /\ revealedValue[2] \in RevealResults
            /\ displayValue = revealedValue[2])
    /\ [][(isRevealed' /\ ~isRevealed) => lastInput'.op = "fulfilled"]_vars

\* A sensitive item that is not masked, its stored value passed, is hidden
\* again after a reveal: the placeholder is shown.
C23_Witness ==
    /\ lastInput.op = "hide"
    /\ item.is_sensitive
    /\ ~item.is_masked
    /\ value = StoredValue
    /\ ~isRevealed
    /\ displayValue = Placeholder

(***************************************************************************)
(* Properties of groupConfigs.                                             *)
(***************************************************************************)
\* The section each key of ConfigKeys belongs to by the rules, NoGroup for a
\* key no rule matches.
ExpectedGroup(key) ==
    CASE key \in {"DATABASE_URL", "redis_url", "Db_Echo"} -> "database"
      [] key = "ANTHROPIC_API_KEY" -> "llm"
      [] key \in {"IMAGE_API_KEY", "ENABLE_IMAGE_TO_IMAGE"} -> "image"
      [] key \in {"video_model", "DOUBAO_KEY", "enable_image_to_video"} -> "video"
      [] OTHER -> NoGroup

SectionRank(name) ==
    CASE name = "database" -> 1
      [] name = "llm" -> 2
      [] name = "image" -> 3
      [] name = "video" -> 4
      [] OTHER -> 0

\* C28: groupConfigs partitions its input. Every item is in the one section
\* its lower-cased key selects, items no rule matches are in none, the
\* sections come in the order database, llm, image, video, none is empty,
\* and each holds its items in input order.
C28_GroupConfigsPartitions ==
    sections # NotGrouped =>
        /\ \A i \in 1..Len(sections) :
                /\ SectionRank(sections[i].key) >= 1
                /\ sections[i].items # <<>>
                /\ sections[i].items =
                       SelectSeq(configs,
                                 LAMBDA c : ExpectedGroup(c.key) = sections[i].key)
        /\ \A i, j \in 1..Len(sections) :
                i < j => SectionRank(sections[i].key) < SectionRank(sections[j].key)
        /\ \A n \in 1..Len(configs) :
                Cardinality({i \in 1..Len(sections) :
                                configs[n] \in Range(sections[i].items)})
                    = IF ExpectedGroup(configs[n].key) = NoGroup THEN 0 ELSE 1

\* A video item, an item no rule matches and a database item written in
\* upper case were grouped: database comes first, then video.
C28_Witness ==
    /\ Len(configs) = 3
    /\ configs[1].key = "DOUBAO_KEY"
    /\ configs[2].key = "API_DB_URL"
    /\ configs[3].key = "DATABASE_URL"
    /\ Len(sections) = 2
    /\ sections[1].key = "database"
    /\ sections[2].key = "video"

====
